---- MODULE Spec2Model ----
(***************************************************************************)
(* The action-graph engine of DungeonWhisperer (src/cogs/components/       *)
(* actions): a stored JSON event document is loaded into a node table      *)
(* (ActionEvent.__init__), and one traversal pops and calls one node per   *)
(* step (ActionEvent._recursively_execute_actions) until a node raises     *)
(* Exit, returns, lets an error escape, or the looked-up id is absent.     *)
(***************************************************************************)
EXTENDS Integers, Sequences, FiniteSets, TLC

\* ------------------------------------------------------------------ bounds
MaxActions == 2     \* longest "actions" list of a generated event document
MaxGroups  == 3     \* most condition groups of a generated predicate
MaxConds   == 2     \* most conditions in one generated condition group
MaxSteps   == 6     \* cap on the transitions of one traversal
MaxEvents  == 2     \* longest "events" list of a generated environment document
MaxSelected == 3    \* most options selected in one menu interaction

\* ------------------------------------------------------- values and inputs
None == "None"                       \* Python's None

IdName(i) == <<"a", "b", "c", "d", "e">>[i]
Ids == {IdName(i) : i \in 1..MaxActions}

Author == "author"                   \* interaction.author
Bystander == "bystander"             \* any other guild member
Users == {Author, Bystander}

GroupName == "colors"
\* The role stores and role_groups tables of the graph runs: the roles of
\* the author, and the rows of the group named GroupName.
Environments == {<<{}, <<>>>>, <<{42}, <<>>>>, <<{42}, <<7, 9>>>>, <<{7, 42}, <<7, 9>>>>}

\* ActionCommand, commands.py
KnownCommands == {"ACK", "ADD_ROLE", "PREDICATE", "REMOVE_ROLE_GROUP",
                  "REMOVE_ROLE", "SEND_EPHEMERAL_MESSAGE"}

\* PredicateConditionType, conditions.py
KnownConditions == {"USER_HAS_ROLE", "GUILD_HAS_ROLE",
                    "USER_HAS_CHANNEL_PERMISSIONS", "USER_HAS_GUILD_PERMISSIONS"}

Truthy(x) == x \notin {None, ""}     \* `if next_action_id:`

\* ------------------------------------------------------ stored documents
\* The "data" dict of an action: keys lists the keys that are present.
Data(keys, role_id, on_success, on_failure, conditions, embed) ==
    [keys |-> keys, role_id |-> role_id, group_name |-> GroupName,
     on_success |-> on_success, on_failure |-> on_failure,
     conditions |-> conditions, content |-> "nope", embed |-> embed,
     on_http_error |-> None]

NoData == Data({}, 0, None, None, <<>>, FALSE)

\* The data dict with an "on_http_error" fallback id configured.
WithFallback(data, id) ==
    [data EXCEPT !.keys = @ \cup {"on_http_error"}, !.on_http_error = id]

Condition(kind, role_id) == [condition |-> kind, role_id |-> role_id]

\* One action dict of the "actions" list.
ActionDict(id, command, data, next) ==
    [id |-> id, command |-> command, data |-> data, next |-> next]

Refs == Ids \cup {None}

\* The entrypoints of generated documents: the first id and the last one,
\* which shorter documents do not define.
Entrypoints == {IdName(1), IdName(MaxActions)}

\* The next ids tried on the nodes that never follow next.
FewRefs == {None, IdName(1)}

\* The shapes an action of a generated graph can take (its id is set by
\* its position in the list).
Shapes ==
    {ActionDict(None, c, NoData, n) : c \in {"ACK", "REMOVE_ROLE"}, n \in FewRefs}
    \cup {ActionDict(None, "ADD_ROLE", Data({"role_id"}, 42, None, None, <<>>, FALSE), n) :
            n \in Refs}
    \cup {ActionDict(None, "REMOVE_ROLE_GROUP", Data({"group_name"}, 0, None, None, <<>>, FALSE), n) :
            n \in Refs}
    \cup {ActionDict(None, "SEND_EPHEMERAL_MESSAGE", Data({"content", "embed"}, 0, None, None, <<>>, TRUE), n) :
            n \in Refs}
    \cup {ActionDict(None, "SEND_EPHEMERAL_MESSAGE", Data({"content"}, 0, None, None, <<>>, FALSE), None)}
    \cup {ActionDict(None, "PREDICATE",
                     Data({"conditions"}, 0, s, f, <<<<Condition("USER_HAS_ROLE", 42)>>>>, FALSE), None) :
            s \in Refs, f \in Refs}
    \cup {ActionDict(None, "PREDICATE",
                     Data({"conditions"}, 0, None, None, <<<<Condition("USER_HAS_ROLE", 42)>>>>, FALSE),
                     IdName(1))}

WithId(shape, id) == [shape EXCEPT !.id = id]

\* The event document {"entrypoint", "actions"} whose i-th action has the
\* i-th shape of shapes and the i-th id.
Doc(entrypoint, shapes) ==
    [entrypoint |-> entrypoint,
     actions |-> [i \in 1..Len(shapes) |-> WithId(shapes[i], IdName(i))]]

\* --------------------------------------------------------- building nodes
\* An Action object.  Fields a class does not set keep the values below.
Object(id, command, data, next) ==
    [id |-> id, command |-> command, next |-> next, callbacks |-> <<>>,
     role_id |-> 0, group_name |-> "", on_success |-> None, on_failure |-> None,
     conditions |-> <<>>, message_data |-> data]

Built(obj) == [ok |-> TRUE, err |-> "", action |-> obj]
Failed(e) == [ok |-> FALSE, err |-> e, action |-> Object(None, "", NoData, None)]

\* Action.__init__: id, _data, empty callbacks, _next_action_id.
ActionInit(id, command, data, next) == Built(Object(id, command, data, next))

\* AckInit without the check of next.
AckInitLax(id, data, next) == Built(Object(id, "ACK", NoData, None))

\* Ack.__init__
AckInit(id, data, next) ==
    IF Truthy(next) THEN Failed("ValueError")
    ELSE Built(Object(id, "ACK", NoData, None))

\* AddRole.__init__
AddRoleInit(id, data, next) ==
    IF "role_id" \notin data.keys THEN Failed("KeyError")
    ELSE Built([Object(id, "ADD_ROLE", data, next) EXCEPT !.role_id = data.role_id])

\* PredicateCondition.from_dict
FromDict(c) ==
    IF c.condition \notin KnownConditions THEN "ValueError"
    ELSE IF c.condition \in {"USER_HAS_ROLE", "GUILD_HAS_ROLE"} THEN "ok"
    ELSE "ValueError"

\* Predicate.__init__
PredicateInit(id, data, next) ==
    IF Truthy(next) THEN Failed("ValueError")
    ELSE IF "conditions" \notin data.keys THEN Failed("KeyError")
    ELSE IF \E g \in 1..Len(data.conditions) :
              \E i \in 1..Len(data.conditions[g]) : FromDict(data.conditions[g][i]) # "ok"
         THEN Failed("ValueError")
    ELSE Built([Object(id, "PREDICATE", data, next) EXCEPT
                   !.on_success = data.on_success,
                   !.on_failure = data.on_failure,
                   !.conditions = data.conditions])

\* RemoveRoleGroup.__init__
RemoveRoleGroupInit(id, data, next) ==
    IF "group_name" \notin data.keys THEN Failed("KeyError")
    ELSE Built([Object(id, "REMOVE_ROLE_GROUP", data, next) EXCEPT !.group_name = data.group_name])

\* SendEphemeralMessage.__init__
SendEphemeralMessageInit(id, data, next) ==
    ActionInit(id, "SEND_EPHEMERAL_MESSAGE", data, next)

\* Action.build: the command tag selects the class, then its constructor runs.
Build(d) ==
    IF d.command \notin KnownCommands THEN Failed("ValueError")
    ELSE CASE d.command = "ACK" -> AckInit(d.id, d.data, d.next)
           [] d.command = "ADD_ROLE" -> AddRoleInit(d.id, d.data, d.next)
           [] d.command = "PREDICATE" -> PredicateInit(d.id, d.data, d.next)
           [] d.command = "REMOVE_ROLE_GROUP" -> RemoveRoleGroupInit(d.id, d.data, d.next)
           [] d.command = "REMOVE_ROLE" -> ActionInit(d.id, "REMOVE_ROLE", d.data, d.next)
           [] OTHER -> SendEphemeralMessageInit(d.id, d.data, d.next)

\* BuildKey that keeps the node declared first for an id.
RECURSIVE BuildKeyFirst(_, _)
BuildKeyFirst(actions, n) ==
    IF n = 0 THEN [ok |-> TRUE, err |-> "", key |-> <<>>]
    ELSE LET prev == BuildKeyFirst(actions, n - 1)
             b == Build(actions[n])
         IN  IF ~prev.ok THEN prev
             ELSE IF ~b.ok THEN [ok |-> FALSE, err |-> b.err, key |-> <<>>]
             ELSE [ok |-> TRUE, err |-> "",
                   key |-> [k \in (DOMAIN prev.key) \cup {b.action.id} |->
                              IF k \in DOMAIN prev.key THEN prev.key[k] ELSE b.action]]

\* The node table after the loop of ActionEvent.__init__ over actions[1..n]:
\* a later action with the same id replaces the earlier one.
RECURSIVE BuildKey(_, _)
BuildKey(actions, n) ==
    IF n = 0 THEN [ok |-> TRUE, err |-> "", key |-> <<>>]
    ELSE LET prev == BuildKey(actions, n - 1)
             b == Build(actions[n])
         IN  IF ~prev.ok THEN prev
             ELSE IF ~b.ok THEN [ok |-> FALSE, err |-> b.err, key |-> <<>>]
             ELSE [ok |-> TRUE, err |-> "",
                   key |-> [k \in (DOMAIN prev.key) \cup {b.action.id} |->
                              IF k = b.action.id THEN b.action ELSE prev.key[k]]]

\* The lookup self._key[data["entrypoint"]] that ends ActionEvent.__init__.
EntrypointLookup(key, entrypoint) ==
    IF entrypoint \in DOMAIN key THEN "ok" ELSE "KeyError"

\* ActionEventInit that stores data["entrypoint"] without looking it up.
ActionEventInitUnchecked(data) ==
    LET t == BuildKey(data.actions, Len(data.actions))
    IN  IF ~t.ok THEN [ok |-> FALSE, err |-> t.err, key |-> <<>>, entrypoint |-> None]
        ELSE [ok |-> TRUE, err |-> "", key |-> t.key, entrypoint |-> data.entrypoint]

\* ActionEvent.__init__: the node table and the entrypoint identifier.
ActionEventInit(data) ==
    LET t == BuildKey(data.actions, Len(data.actions))
    IN  IF ~t.ok THEN [ok |-> FALSE, err |-> t.err, key |-> <<>>, entrypoint |-> None]
        ELSE IF EntrypointLookup(t.key, data.entrypoint) # "ok"
             THEN [ok |-> FALSE, err |-> "KeyError", key |-> <<>>, entrypoint |-> None]
        ELSE [ok |-> TRUE, err |-> "", key |-> t.key,
              entrypoint |-> t.key[data.entrypoint].id]

\* ------------------------------------------------------- executing nodes
\* What a call ends with: one of the callbacks of callbacks.py (CallNext,
\* Exit), a plain return, or another exception leaving the call.
CallNext(next_action_id) == [kind |-> "CallNext", next |-> next_action_id, err |-> ""]
Exit == [kind |-> "Exit", next |-> None, err |-> ""]
Return == [kind |-> "Return", next |-> None, err |-> ""]
Raise(e) == [kind |-> "Raise", next |-> None, err |-> e]

\* The outcome of a call: its ending, the author's roles and the responses
\* of the interaction after it.
Outcome(sig, author_roles, resp) == [sig |-> sig, roles |-> author_roles, responses |-> resp]

\* Action._get_next
GetNext(action) == IF Truthy(action.next) THEN CallNext(action.next) ELSE Exit

\* Action.call
ActionCall(action, ctx) == Outcome(Raise("NotImplementedError"), ctx.roles, ctx.responses)

\* AckCall that raises Exit without creating the response.
AckCallSilent(action, ctx) == Outcome(Exit, ctx.roles, ctx.responses)

\* Ack.call
AckCall(action, ctx) ==
    IF ctx.fault THEN Outcome(Raise("HTTPException"), ctx.roles, ctx.responses)
    ELSE Outcome(Exit, ctx.roles, Append(ctx.responses, [kind |-> "ack", content |-> ""]))

\* self.callbacks.pop("on_http_error", self._next_action_id)
OnHttpError(action) ==
    IF "on_http_error" \in DOMAIN action.callbacks
    THEN action.callbacks["on_http_error"] ELSE action.next

\* AddRoleCall that exits when the role is already held.
AddRoleCallSkipHeld(action, ctx) ==
    IF action.role_id \in ctx.roles THEN Outcome(Exit, ctx.roles, ctx.responses)
    ELSE IF ctx.fault
    THEN IF Truthy(OnHttpError(action))
         THEN Outcome(CallNext(OnHttpError(action)), ctx.roles, ctx.responses)
         ELSE Outcome(GetNext(action), ctx.roles, ctx.responses)
    ELSE Outcome(GetNext(action), ctx.roles \cup {action.role_id}, ctx.responses)

\* AddRole.call
AddRoleCall(action, ctx) ==
    IF ctx.fault
    THEN IF Truthy(OnHttpError(action))
         THEN Outcome(CallNext(OnHttpError(action)), ctx.roles, ctx.responses)
         ELSE Outcome(GetNext(action), ctx.roles, ctx.responses)
    ELSE Outcome(GetNext(action), ctx.roles \cup {action.role_id}, ctx.responses)

\* _EntityHasRoleCondition.call
ConditionCall(c, ctx) ==
    IF c.condition = "USER_HAS_ROLE" THEN c.role_id \in ctx.roles
    ELSE c.role_id \in ctx.guild_roles

\* the for loop of _check_or_group from conditions[i] on
RECURSIVE OrLoop(_, _, _, _)
OrLoop(conditions, i, ret, ctx) ==
    IF i > Len(conditions) THEN ret
    ELSE OrLoop(conditions, i + 1, ret \/ ConditionCall(conditions[i], ctx), ctx)

\* Predicate._check_conditions._check_or_group
CheckOrGroup(conditions, ctx) ==
    IF conditions = <<>> THEN TRUE
    ELSE OrLoop(conditions, 2, ConditionCall(conditions[1], ctx), ctx)

\* AndLoop with |= in place of &=.
RECURSIVE AndLoopOr(_, _, _, _)
AndLoopOr(groups, i, ret, ctx) ==
    IF i > Len(groups) THEN ret
    ELSE IF ~ret THEN FALSE
    ELSE AndLoopOr(groups, i + 1, ret \/ CheckOrGroup(groups[i], ctx), ctx)

\* the for loop of _check_conditions from groups[i] on
RECURSIVE AndLoop(_, _, _, _)
AndLoop(groups, i, ret, ctx) ==
    IF i > Len(groups) THEN ret
    ELSE IF ~ret THEN FALSE
    ELSE AndLoop(groups, i + 1, ret /\ CheckOrGroup(groups[i], ctx), ctx)

\* CheckConditions with an empty first group counted as a false disjunction.
CheckConditionsNoVacuous(conditions, ctx) ==
    IF conditions = <<>> THEN TRUE
    ELSE AndLoop(conditions, 2, conditions[1] # <<>> /\ CheckOrGroup(conditions[1], ctx), ctx)

\* Predicate._check_conditions
CheckConditions(conditions, ctx) ==
    IF ~(conditions # <<>> /\ conditions[1] # <<>>) THEN TRUE
    ELSE AndLoop(conditions, 2, CheckOrGroup(conditions[1], ctx), ctx)

\* The calls of _check_or_group for group g: conditions[0].call and then
\* the call of every further condition, as pairs <<group, position>>.
OrCalls(conditions, g) == [i \in 1..Len(conditions) |-> <<g, i>>]

\* AndCalls that goes on to the later groups after a false group.
RECURSIVE AndCallsEager(_, _, _, _)
AndCallsEager(groups, i, ret, ctx) ==
    IF i > Len(groups) THEN <<>>
    ELSE OrCalls(groups[i], i)
         \o AndCallsEager(groups, i + 1, ret /\ CheckOrGroup(groups[i], ctx), ctx)

\* The condition calls of the for loop of _check_conditions from groups[i] on.
RECURSIVE AndCalls(_, _, _, _)
AndCalls(groups, i, ret, ctx) ==
    IF i > Len(groups) THEN <<>>
    ELSE IF ~ret THEN <<>>
    ELSE OrCalls(groups[i], i)
         \o AndCalls(groups, i + 1, ret /\ CheckOrGroup(groups[i], ctx), ctx)

\* The condition calls Predicate._check_conditions makes, in order.
ConditionCalls(conditions, ctx) ==
    IF ~(conditions # <<>> /\ conditions[1] # <<>>) THEN <<>>
    ELSE OrCalls(conditions[1], 1)
         \o AndCalls(conditions, 2, CheckOrGroup(conditions[1], ctx), ctx)

\* The condition calls made by the call of a node.
Evaluated(action, ctx) ==
    IF action.command = "PREDICATE" THEN ConditionCalls(action.conditions, ctx) ELSE <<>>

\* PredicateGetNext that takes the other branch when the selected one is unset.
PredicateGetNextEither(action, success) ==
    IF success /\ Truthy(action.on_success) THEN CallNext(action.on_success)
    ELSE IF ~success /\ Truthy(action.on_failure) THEN CallNext(action.on_failure)
    ELSE IF Truthy(action.on_success) THEN CallNext(action.on_success)
    ELSE IF Truthy(action.on_failure) THEN CallNext(action.on_failure)
    ELSE Exit

\* Predicate._get_next
PredicateGetNext(action, success) ==
    IF success /\ Truthy(action.on_success) THEN CallNext(action.on_success)
    ELSE IF ~success /\ Truthy(action.on_failure) THEN CallNext(action.on_failure)
    ELSE Exit

\* PredicateCall that takes the failure branch whatever the conditions hold.
PredicateCallAlwaysFails(action, ctx) ==
    Outcome(PredicateGetNext(action, FALSE), ctx.roles, ctx.responses)

\* Predicate.call
PredicateCall(action, ctx) ==
    Outcome(PredicateGetNext(action, CheckConditions(action.conditions, ctx)),
            ctx.roles, ctx.responses)

\* The rows of role_groups for (guild, name), as role ids.
QueryRoleGroup(role_groups, name) ==
    IF name \in DOMAIN role_groups THEN role_groups[name] ELSE <<>>

\* RemoveRoleGroupCall that exits when the lookup finds no rows.
RemoveRoleGroupCallExitOnMiss(action, ctx) ==
    LET rows == QueryRoleGroup(ctx.role_groups, action.group_name)
        grouped_roles == {rows[i] : i \in 1..Len(rows)} \cap ctx.roles
    IN  IF rows = <<>> THEN Outcome(Exit, ctx.roles, ctx.responses)
        ELSE IF grouped_roles # {}
        THEN IF ctx.fault THEN Outcome(Raise("HTTPException"), ctx.roles, ctx.responses)
             ELSE Outcome(GetNext(action), ctx.roles \ grouped_roles, ctx.responses)
        ELSE Outcome(GetNext(action), ctx.roles, ctx.responses)

\* RemoveRoleGroupCall that removes every role of the member.
RemoveRoleGroupCallClear(action, ctx) ==
    LET rows == QueryRoleGroup(ctx.role_groups, action.group_name)
        grouped_roles == {rows[i] : i \in 1..Len(rows)} \cap ctx.roles
    IN  IF rows # <<>> /\ grouped_roles # {}
        THEN IF ctx.fault THEN Outcome(Raise("HTTPException"), ctx.roles, ctx.responses)
             ELSE Outcome(GetNext(action), {}, ctx.responses)
        ELSE Outcome(GetNext(action), ctx.roles, ctx.responses)

\* RemoveRoleGroup.call
RemoveRoleGroupCall(action, ctx) ==
    LET rows == QueryRoleGroup(ctx.role_groups, action.group_name)
        grouped_roles == {rows[i] : i \in 1..Len(rows)} \cap ctx.roles
    IN  IF rows # <<>> /\ grouped_roles # {}
        THEN IF ctx.fault THEN Outcome(Raise("HTTPException"), ctx.roles, ctx.responses)
             ELSE Outcome(GetNext(action), ctx.roles \ grouped_roles, ctx.responses)
        ELSE Outcome(GetNext(action), ctx.roles, ctx.responses)

\* SendEphemeralMessageCall that goes on to next after the send.
SendEphemeralMessageCallThenNext(action, ctx) ==
    LET data == action.message_data
    IN  IF "content" \notin data.keys \/ "embed" \notin data.keys
        THEN Outcome(Raise("KeyError"), ctx.roles, ctx.responses)
        ELSE IF ctx.fault THEN Outcome(Raise("HTTPException"), ctx.roles, ctx.responses)
        ELSE Outcome(GetNext(action), ctx.roles,
                     Append(ctx.responses, [kind |-> "ephemeral", content |-> data.content]))

\* SendEphemeralMessage.call
SendEphemeralMessageCall(action, ctx) ==
    LET data == action.message_data
    IN  IF "content" \notin data.keys \/ "embed" \notin data.keys
        THEN Outcome(Raise("KeyError"), ctx.roles, ctx.responses)
        ELSE IF ctx.fault THEN Outcome(Raise("HTTPException"), ctx.roles, ctx.responses)
        ELSE Outcome(Return, ctx.roles,
                     Append(ctx.responses, [kind |-> "ephemeral", content |-> data.content]))

\* action.call(interaction, bot), by the class of the node
Call(action, ctx) ==
    CASE action.command = "ACK" -> AckCall(action, ctx)
      [] action.command = "ADD_ROLE" -> AddRoleCall(action, ctx)
      [] action.command = "PREDICATE" -> PredicateCall(action, ctx)
      [] action.command = "REMOVE_ROLE_GROUP" -> RemoveRoleGroupCall(action, ctx)
      [] action.command = "REMOVE_ROLE" -> ActionCall(action, ctx)
      [] OTHER -> SendEphemeralMessageCall(action, ctx)

\* Pop with the node left in the table (a plain lookup).
PopKeep(key, action_id) == key

\* self._key.pop(action_id, None): the table afterwards
Pop(key, action_id) == [k \in (DOMAIN key) \ {action_id} |-> key[k]]

\* Invoke with a subscript lookup: an absent id raises KeyError.
InvokeStrict(key, action_id, ctx) ==
    IF action_id \in DOMAIN key
    THEN [found |-> TRUE, o |-> Call(key[action_id], ctx)]
    ELSE [found |-> FALSE, o |-> Outcome(Raise("KeyError"), ctx.roles, ctx.responses)]

\* The outcomes the platform call of the node to pop can have (TRUE: it
\* fails with discord.HTTPException); nodes of the other classes, and an
\* absent node, make no platform call.
Faults(key, action_id) ==
    IF /\ action_id \in DOMAIN key
       /\ key[action_id].command \in {"ACK", "ADD_ROLE", "REMOVE_ROLE_GROUP",
                                      "SEND_EPHEMERAL_MESSAGE"}
    THEN BOOLEAN ELSE {FALSE}

\* The try block of _recursively_execute_actions: the popped node is called
\* if there is one; with None popped, nothing is called and the block ends.
Invoke(key, action_id, ctx) ==
    IF action_id \in DOMAIN key
    THEN [found |-> TRUE, o |-> Call(key[action_id], ctx)]
    ELSE [found |-> FALSE, o |-> Outcome(Return, ctx.roles, ctx.responses)]

\* ----------------------------------------------------------- dispatching
\* The stored documents of components: an environment holds a type and a
\* list of events, an event an id, an entrypoint and its actions.
EventDict(id, entrypoint, actions) ==
    [id |-> id, entrypoint |-> entrypoint, actions |-> actions]

EnvironmentDict(type, events) == [type |-> type, events |-> events]

KnownTypes == {"buttons", "menus"}

\* One built ActionEvent per element of events[1..n], in list order; the
\* first event that fails to build ends the construction.
RECURSIVE BuildEvents(_, _)
BuildEvents(events, n) ==
    IF n = 0 THEN [ok |-> TRUE, err |-> "", events |-> <<>>]
    ELSE LET prev == BuildEvents(events, n - 1)
             e == ActionEventInit(events[n])
         IN  IF ~prev.ok THEN prev
             ELSE IF ~e.ok THEN [ok |-> FALSE, err |-> e.err, events |-> <<>>]
             ELSE [ok |-> TRUE, err |-> "",
                   events |-> Append(prev.events,
                                     [id |-> events[n].id, key |-> e.key,
                                      entrypoint |-> e.entrypoint, index |-> n,
                                      data |-> events[n]])]

\* ActionEnvironment.__init__
ActionEnvironmentInit(data) ==
    IF data.type \notin KnownTypes THEN [ok |-> FALSE, err |-> "ValueError", events |-> <<>>]
    ELSE BuildEvents(data.events, Len(data.events))

IsButtonEvent(event) == event.id = "on_button_click"
IsMenuEvent(event) == event.id \in {"on_menu_select", "on_menu_unselect"}

\* The parameters of ActionEnvironment.execute after self.
ExecuteParameters == <<"interaction", "bot">>

\* MenuEvents with the select events ahead of the unselect events.
MenuEventsSelectFirst(events) ==
    LET IsSelect(event) == event.id = "on_menu_select"
        IsUnselect(event) == event.id = "on_menu_unselect"
    IN  SelectSeq(events, IsSelect) \o SelectSeq(events, IsUnselect)

\* The events a menu interaction runs: the filter of ActionEnvironment.execute.
MenuEvents(events) == SelectSeq(events, IsMenuEvent)

\* environment.execute(*args) for a component of the given kind: the
\* exception the call raises before any event runs ("" for none) and the
\* events it runs, in order.
EnvironmentExecute(env, kind, args) ==
    IF Len(args) # Len(ExecuteParameters) THEN [err |-> "TypeError", events |-> <<>>]
    ELSE IF kind = "Button"
    THEN IF SelectSeq(env.events, IsButtonEvent) = <<>>
         THEN [err |-> "IndexError", events |-> <<>>]
         ELSE [err |-> "", events |-> <<Head(SelectSeq(env.events, IsButtonEvent))>>]
    ELSE IF kind = "SelectMenu" THEN [err |-> "", events |-> MenuEvents(env.events)]
    ELSE [err |-> "", events |-> <<>>]

\* BuildRows that leaves out the rows that fail to build.
RECURSIVE BuildRowsSkipFailed(_, _)
BuildRowsSkipFailed(menu_rows, n) ==
    IF n = 0 THEN [ok |-> TRUE, err |-> "", table |-> <<>>]
    ELSE LET prev == BuildRowsSkipFailed(menu_rows, n - 1)
             label == menu_rows[n].option_label
             e == ActionEnvironmentInit(menu_rows[n].action)
         IN  IF ~e.ok THEN prev
             ELSE [ok |-> TRUE, err |-> "",
                   table |-> [l \in (DOMAIN prev.table) \cup {label} |->
                                IF l = label THEN e ELSE prev.table[l]]]

\* The dict of on_dropdown after its loop over the rows[1..n]: one built
\* environment per option label, a later row replacing an earlier one.
RECURSIVE BuildRows(_, _)
BuildRows(menu_rows, n) ==
    IF n = 0 THEN [ok |-> TRUE, err |-> "", table |-> <<>>]
    ELSE LET prev == BuildRows(menu_rows, n - 1)
             label == menu_rows[n].option_label
             e == ActionEnvironmentInit(menu_rows[n].action)
         IN  IF ~prev.ok THEN prev
             ELSE IF ~e.ok THEN [ok |-> FALSE, err |-> e.err, table |-> <<>>]
             ELSE [ok |-> TRUE, err |-> "",
                   table |-> [l \in (DOMAIN prev.table) \cup {label} |->
                                IF l = label THEN e ELSE prev.table[l]]]

\* OptionStep that runs the events of an environment of the dict whatever
\* the label.
OptionStepAny(table, label) ==
    IF DOMAIN table = {} THEN [kind |-> "skip", err |-> "", events |-> <<>>]
    ELSE LET any == CHOOSE l \in DOMAIN table : TRUE
             r == EnvironmentExecute(table[any], "SelectMenu", <<"interaction", "bot">>)
         IN  IF r.err # "" THEN [kind |-> "raise", err |-> r.err, events |-> <<>>]
             ELSE [kind |-> "run", err |-> "", events |-> r.events]

\* OptionStep with a subscript lookup that is not caught.
OptionStepStrict(table, label) ==
    IF label \notin DOMAIN table THEN [kind |-> "raise", err |-> "KeyError", events |-> <<>>]
    ELSE LET r == EnvironmentExecute(table[label], "SelectMenu", <<"interaction", "bot">>)
         IN  IF r.err # "" THEN [kind |-> "raise", err |-> r.err, events |-> <<>>]
             ELSE [kind |-> "run", err |-> "", events |-> r.events]

\* One iteration of the loop of on_dropdown over the selected options: an
\* option without an environment is skipped with a warning, the others run
\* the events of their environment.
OptionStep(table, label) ==
    IF label \notin DOMAIN table THEN [kind |-> "skip", err |-> "", events |-> <<>>]
    ELSE LET r == EnvironmentExecute(table[label], "SelectMenu", <<"interaction", "bot">>)
         IN  IF r.err # "" THEN [kind |-> "raise", err |-> r.err, events |-> <<>>]
             ELSE [kind |-> "run", err |-> "", events |-> r.events]

\* ------------------------------------------------------------------ state
VARIABLES
    doc,          \* the stored event document
    status,       \* "Stored", "Ready", "Terminated", "BuildError" or "Error"
    key,          \* ActionEvent._key, the node table
    cur,          \* the action_id of the pending _recursively_execute_actions
    roles,        \* the role store: the roles of every member
    init_roles,   \* the role store when the interaction arrived
    guild_roles,  \* interaction.guild.roles
    role_groups,  \* the role_groups table of the guild: name -> role ids
    responses,    \* the responses created for the interaction
    log,          \* one entry per executed node, in order
    steps,        \* transitions taken by the traversal
    err,          \* the exception that ended loading or the traversal
    arrival,      \* the last lookup: "none", "hit" or "miss"
    component,    \* the class of interaction.component: "Button", "SelectMenu"
    stored,       \* the rows the handler's query returns for the component
    selected,     \* the labels of interaction.component.selected_options
    env_key,      \* the dict of on_dropdown: option label -> environment
    pc,           \* the handler: "idle", "start", "running", "done" or "error"
    option,       \* the index of the next selected option to handle
    pending,      \* the events the running environment.execute has yet to run
    runs,         \* one entry per started event traversal, in order
    other         \* the traversal of a second interaction on the same document

vars == <<doc, status, key, cur, roles, init_roles, guild_roles, role_groups,
          responses, log, steps, err, arrival,
          component, stored, selected, env_key, pc, option, pending, runs, other>>

\* No second interaction is part of the run.
NoOther == [user |-> None, status |-> "Absent", key |-> <<>>, cur |-> None,
            log |-> <<>>, responses |-> <<>>, err |-> ""]

\* The variables of the handlers of Components.
handler == <<component, stored, selected, env_key, pc, option, pending, runs>>

\* No handler of Components is part of the run.
NoHandler ==
    /\ component = "none"
    /\ stored = <<>>
    /\ selected = <<>>
    /\ env_key = <<>>
    /\ pc = "idle"
    /\ option = 0
    /\ pending = <<>>
    /\ runs = <<>>

RoleStore(author_roles) == [u \in Users |-> IF u = Author THEN author_roles ELSE {42}]
RoleGroupTable(rows) == [n \in {GroupName} |-> rows]

\* The state common to every run before the document is loaded.
Fresh ==
    /\ status = "Stored"
    /\ key = <<>>
    /\ cur = None
    /\ init_roles = roles
    /\ responses = <<>>
    /\ log = <<>>
    /\ steps = 0
    /\ err = ""
    /\ arrival = "none"
    /\ NoHandler
    /\ other = NoOther

\* Runs of generated graphs.
Init ==
    /\ \E k \in 1..MaxActions :
          \E e \in Entrypoints, shapes \in [1..k -> Shapes] : doc = Doc(e, shapes)
    /\ \E env \in Environments :
          /\ roles = RoleStore(env[1])
          /\ role_groups = RoleGroupTable(env[2])
    /\ guild_roles = {7, 9, 42}
    /\ Fresh

\* SetRoles with the roles given to every member.
SetRolesOfAll(store, author_roles) == [u \in Users |-> author_roles]

\* The role store after interaction.author.add_roles / remove_roles left
\* the author with author_roles: the member the calls act on is the author.
SetRoles(store, author_roles) == [store EXCEPT ![Author] = author_roles]

\* ActionEvent.__init__ followed by ActionEvent.execute, which starts the
\* traversal at the entrypoint.
Load ==
    /\ status = "Stored"
    /\ LET t == ActionEventInit(doc)
       IN  IF t.ok
           THEN /\ key' = t.key
                /\ cur' = t.entrypoint
                /\ status' = "Ready"
                /\ err' = err
           ELSE /\ status' = "BuildError"
                /\ err' = t.err
                /\ UNCHANGED <<key, cur>>
    /\ UNCHANGED <<doc, roles, init_roles, guild_roles, role_groups, responses,
                   log, steps, arrival>>
    /\ UNCHANGED handler
    /\ UNCHANGED other

\* One invocation of ActionEvent._recursively_execute_actions(cur): pop the
\* node, call it, and act on the way the call ends.  fault says whether the
\* platform call the node makes fails with discord.HTTPException.
Execute ==
    /\ status = "Ready"
    /\ steps < MaxSteps
    /\ steps' = steps + 1
    /\ key' = Pop(key, cur)
    /\ \E fault \in Faults(key, cur) :
          LET ctx == [roles |-> roles[Author], guild_roles |-> guild_roles,
                      role_groups |-> role_groups, responses |-> responses,
                      fault |-> fault]
              r == Invoke(key, cur, ctx)
              o == r.o
          IN  /\ arrival' = IF r.found THEN "hit" ELSE "miss"
              /\ roles' = SetRoles(roles, o.roles)
              /\ responses' = o.responses
              /\ log' = IF r.found
                        THEN Append(log, [id |-> cur, action |-> key[cur],
                                          before |-> roles[Author], after |-> o.roles,
                                          fault |-> fault, sig |-> o.sig,
                                          evaluated |-> Evaluated(key[cur], ctx)])
                        ELSE log
              /\ CASE o.sig.kind = "CallNext" ->
                        /\ cur' = o.sig.next /\ status' = "Ready" /\ err' = err
                   [] o.sig.kind = "Raise" ->
                        /\ cur' = cur /\ status' = "Error" /\ err' = o.sig.err
                   [] OTHER ->
                        /\ cur' = cur /\ status' = "Terminated" /\ err' = err
    /\ UNCHANGED <<doc, init_roles, guild_roles, role_groups>>
    /\ UNCHANGED handler
    /\ UNCHANGED other

Next == Load \/ Execute

Spec == Init /\ [][Next]_vars

TypeOK ==
    /\ status \in {"Stored", "Ready", "Terminated", "BuildError", "Error"}
    /\ steps \in 0..MaxSteps
    /\ arrival \in {"none", "hit", "miss"}

\* ------------------------------------------------- runs of one predicate
\* The role id tested by condition i of group g: every condition of a
\* generated predicate tests a role of its own, so the truth values of the
\* conditions vary independently with the role set they are tested against.
RoleAt(g, i) == (g - 1) * MaxConds + i

\* The roles the conditions of a predicate with these group sizes test.
TestRoles(sizes) == UNION {{RoleAt(g, i) : i \in 1..sizes[g]} : g \in 1..Len(sizes)}

\* The conditions list with sizes[g] conditions of the given kind in group g.
Conditions(kind, sizes) ==
    [g \in 1..Len(sizes) |-> [i \in 1..sizes[g] |-> Condition(kind, RoleAt(g, i))]]

GroupSizes == UNION {[1..k -> 0..MaxConds] : k \in 0..MaxGroups}

\* p = PREDICATE{on_success: s, on_failure: f, conditions}, s = ACK,
\* f = ADD_ROLE{role_id: 42}, entrypoint p.
PredicateDoc(conditions) ==
    [entrypoint |-> "p",
     actions |-> <<ActionDict("p", "PREDICATE",
                              Data({"conditions"}, 0, "s", "f", conditions, FALSE), None),
                   ActionDict("s", "ACK", NoData, None),
                   ActionDict("f", "ADD_ROLE",
                              Data({"role_id"}, 42, None, None, <<>>, FALSE), None)>>]

\* Runs of one predicate over every role set its conditions can meet.
InitPredicate ==
    /\ \E kind \in {"USER_HAS_ROLE", "GUILD_HAS_ROLE"}, sizes \in GroupSizes :
        \E held \in SUBSET TestRoles(sizes) :
          /\ doc = PredicateDoc(Conditions(kind, sizes))
          /\ roles = [u \in Users |-> IF u = Author /\ kind = "USER_HAS_ROLE" THEN held ELSE {}]
          /\ guild_roles = IF kind = "GUILD_HAS_ROLE" THEN held ELSE {}
    /\ role_groups = RoleGroupTable(<<>>)
    /\ Fresh

PredicateSpec == InitPredicate /\ [][Next]_vars

\* ------------------------------------------------------ scenario runs
\* The graph of the end-to-end property: p1 = PREDICATE{on_success: a1,
\* on_failure: a2, conditions: [[user_has_role(42)]]}, a1 = ACK,
\* a2 = SEND_EPHEMERAL_MESSAGE{content: "nope"}, with or without an embed.
EndToEndActions(embed) ==
    <<ActionDict("p1", "PREDICATE",
                 Data({"conditions"}, 0, "a1", "a2",
                      <<<<Condition("USER_HAS_ROLE", 42)>>>>, FALSE), None),
      ActionDict("a1", "ACK", NoData, None),
      ActionDict("a2", "SEND_EPHEMERAL_MESSAGE",
                 Data(IF embed THEN {"content", "embed"} ELSE {"content"},
                      0, None, None, <<>>, embed), None)>>

\* The orders in which three actions can be declared.
Orders == {o \in [1..3 -> 1..3] : \A i, j \in 1..3 : o[i] = o[j] => i = j}

EndToEndDocs ==
    {[entrypoint |-> "p1", actions |-> [i \in 1..3 |-> EndToEndActions(embed)[o[i]]]] :
       embed \in BOOLEAN, o \in Orders}

\* a = ADD_ROLE{role_id: 42, on_http_error: h} with next n or none,
\* n = ACK, h = SEND_EPHEMERAL_MESSAGE with content and embed.
FallbackDocs ==
    {[entrypoint |-> "a",
      actions |-> <<ActionDict("a", "ADD_ROLE",
                               WithFallback(Data({"role_id"}, 42, None, None, <<>>, FALSE), "h"),
                               n),
                    ActionDict("n", "ACK", NoData, None),
                    ActionDict("h", "SEND_EPHEMERAL_MESSAGE",
                               Data({"content", "embed"}, 0, None, None, <<>>, TRUE), None)>>] :
       n \in {None, "n"}}

\* a = REMOVE_ROLE{role_id} with next n or none, n = ACK.
RemoveRoleDocs ==
    {[entrypoint |-> "a",
      actions |-> <<ActionDict("a", "REMOVE_ROLE",
                               Data({"role_id"}, r, None, None, <<>>, FALSE), n),
                    ActionDict("n", "ACK", NoData, None)>>] :
       n \in {None, "n"}, r \in {7, 42}}

\* Actions with an unknown command tag or without a field of their kind.
MalformedActions ==
    {ActionDict("m", "GRANT_ROLE", Data({"role_id"}, 42, None, None, <<>>, FALSE), None),
     ActionDict("m", "ADD_ROLE", NoData, None),
     ActionDict("m", "REMOVE_ROLE", NoData, None),
     ActionDict("m", "REMOVE_ROLE_GROUP", NoData, None),
     ActionDict("m", "PREDICATE", NoData, None),
     ActionDict("m", "SEND_EPHEMERAL_MESSAGE", Data({"embed"}, 0, None, None, <<>>, TRUE), None)}

\* a = ADD_ROLE{role_id: 42} with next m, m malformed, declared in either
\* order; the entrypoint is a or m.
MalformedDocs ==
    {[entrypoint |-> e,
      actions |-> IF first
                  THEN <<ActionDict("a", "ADD_ROLE",
                                    Data({"role_id"}, 42, None, None, <<>>, FALSE), "m"), m>>
                  ELSE <<m, ActionDict("a", "ADD_ROLE",
                                       Data({"role_id"}, 42, None, None, <<>>, FALSE), "m")>>] :
       e \in {"a", "m"}, first \in BOOLEAN, m \in MalformedActions}

\* The four permission kinds a condition can name.
PermissionKinds ==
    {"USER_HAS_CHANNEL_PERMISSIONS", "USER_HAS_GUILD_PERMISSIONS",
     "BOT_HAS_CHANNEL_PERMISSIONS", "BOT_HAS_GUILD_PERMISSIONS"}

\* A condition dict of a permission kind with its permissions_value.
PermissionCondition(kind, mask) ==
    [condition |-> kind, role_id |-> 0, permissions_value |-> mask]

\* p = PREDICATE{on_success: s, on_failure: f, conditions: [[permission
\* condition]]} with or without a role condition in the same group,
\* s = ACK, f = ADD_ROLE{role_id: 42}.
PermissionDocs ==
    {[entrypoint |-> "p",
      actions |-> <<ActionDict("p", "PREDICATE",
                               Data({"conditions"}, 0, "s", "f",
                                    <<IF both
                                      THEN <<Condition("USER_HAS_ROLE", 42),
                                             PermissionCondition(kind, mask)>>
                                      ELSE <<PermissionCondition(kind, mask)>>>>,
                                    FALSE), None),
                    ActionDict("s", "ACK", NoData, None),
                    ActionDict("f", "ADD_ROLE",
                               Data({"role_id"}, 42, None, None, <<>>, FALSE), None)>>] :
       kind \in PermissionKinds, mask \in {0, 8}, both \in BOOLEAN}

\* Well-formed actions two of which share the id "b": a = ADD_ROLE{7} with
\* next b, and b declared twice, as two different nodes, before or after a.
DuplicateDocs ==
    {[entrypoint |-> e,
      actions |-> IF first
                  THEN <<ActionDict("a", "ADD_ROLE",
                                    Data({"role_id"}, 7, None, None, <<>>, FALSE), "b"),
                         pair[1], pair[2]>>
                  ELSE <<pair[1],
                         ActionDict("a", "ADD_ROLE",
                                    Data({"role_id"}, 7, None, None, <<>>, FALSE), "b"),
                         pair[2]>>] :
       e \in {"a", "b"}, first \in BOOLEAN,
       pair \in {<<ActionDict("b", "ACK", NoData, None),
                   ActionDict("b", "ADD_ROLE",
                              Data({"role_id"}, 42, None, None, <<>>, FALSE), None)>>,
                 <<ActionDict("b", "ADD_ROLE",
                              Data({"role_id"}, 42, None, None, <<>>, FALSE), None),
                   ActionDict("b", "ACK", NoData, None)>>,
                 <<ActionDict("b", "REMOVE_ROLE_GROUP",
                              Data({"group_name"}, 0, None, None, <<>>, FALSE), "a"),
                   ActionDict("b", "ACK", NoData, None)>>}}

ScenarioDocs ==
    EndToEndDocs \cup FallbackDocs \cup RemoveRoleDocs \cup MalformedDocs
    \cup PermissionDocs \cup DuplicateDocs

\* Runs of the scenario documents for every role set of the author.
InitScenario ==
    /\ doc \in ScenarioDocs
    /\ \E held \in SUBSET {7, 42}, rows \in {<<>>, <<7, 9>>} :
          /\ roles = RoleStore(held)
          /\ role_groups = RoleGroupTable(rows)
    /\ guild_roles = {7, 9, 42}
    /\ Fresh

ScenarioSpec == InitScenario /\ [][Next]_vars

\* ------------------------------------------------------- handling clicks
Labels == {"A", "B", "C"}

GrantThenAck ==
    <<ActionDict("a", "ADD_ROLE", Data({"role_id"}, 7, None, None, <<>>, FALSE), "b"),
      ActionDict("b", "ACK", NoData, None)>>

\* The events of generated environment documents.
EventChoices ==
    {EventDict("on_menu_select", "a", GrantThenAck),
     EventDict("on_menu_unselect", "a",
               <<ActionDict("a", "REMOVE_ROLE_GROUP",
                            Data({"group_name"}, 0, None, None, <<>>, FALSE), None)>>),
     EventDict("on_menu_select", "a", <<ActionDict("a", "ACK", NoData, None)>>),
     EventDict("on_button_click", "a",
               <<ActionDict("a", "ADD_ROLE",
                            Data({"role_id"}, 42, None, None, <<>>, FALSE), None)>>),
     EventDict("on_menu_select", "a", <<ActionDict("a", "ADD_ROLE", NoData, None)>>)}

\* A row of button_actions or menu_actions.
Row(label, action) == [option_label |-> label, action |-> action]

\* The rows of options B and C, when they are stored.
RowB == Row("B", EnvironmentDict("menus", <<EventDict("on_menu_select", "a", GrantThenAck)>>))
RowC ==
    Row("C", EnvironmentDict("menus",
               <<EventDict("on_menu_unselect", "a",
                           <<ActionDict("a", "REMOVE_ROLE_GROUP",
                                        Data({"group_name"}, 0, None, None, <<>>, FALSE), "b"),
                             ActionDict("b", "ADD_ROLE",
                                        Data({"role_id"}, 42, None, None, <<>>, FALSE), None)>>),
                 EventDict("on_menu_select", "a",
                           <<ActionDict("a", "ACK", NoData, None)>>)>>))

\* Selections of distinct options, in the order the interaction lists them.
Selection(n) == {s \in [1..n -> Labels] : \A i, j \in 1..n : s[i] = s[j] => i = j}

\* No traversal has started and no document is loaded.
NoTraversal ==
    /\ doc = [entrypoint |-> None, actions |-> <<>>]
    /\ status = "Stored"
    /\ key = <<>>
    /\ cur = None
    /\ init_roles = roles
    /\ responses = <<>>
    /\ log = <<>>
    /\ steps = 0
    /\ err = ""
    /\ arrival = "none"

\* An interaction arrives at on_button_click or on_dropdown: a click on a
\* button with or without a stored row, or a selection in a menu with a
\* stored row for option A and with or without rows for B and C.
InitDispatch ==
    /\ \E n \in 0..MaxEvents : \E events \in [1..n -> EventChoices] :
          \/ /\ component = "Button"
             /\ stored \in {<<>>, <<Row("A", EnvironmentDict("buttons", events))>>}
             /\ selected = <<>>
          \/ /\ component = "SelectMenu"
             /\ \E b \in SUBSET {RowB}, c \in SUBSET {RowC} :
                   stored = <<Row("A", EnvironmentDict("menus", events))>>
                            \o (IF b = {} THEN <<>> ELSE <<RowB>>)
                            \o (IF c = {} THEN <<>> ELSE <<RowC>>)
             /\ \E m \in 0..MaxSelected : selected \in Selection(m)
    /\ roles = RoleStore({9})
    /\ role_groups = RoleGroupTable(<<7, 9>>)
    /\ guild_roles = {7, 9, 42}
    /\ NoTraversal
    /\ env_key = <<>>
    /\ pc = "start"
    /\ option = 0
    /\ pending = <<>>
    /\ runs = <<>>
    /\ other = NoOther

traversal == <<doc, status, key, cur, roles, init_roles, guild_roles, role_groups,
               responses, log, steps, err, arrival>>

\* The events of an environment as entries of pending.
Pending(label, events) == [i \in 1..Len(events) |-> [label |-> label, event |-> events[i]]]

\* Components.on_button_click
OnButtonClick ==
    /\ pc = "start"
    /\ component = "Button"
    /\ IF stored = <<>>
       THEN pc' = "done" /\ UNCHANGED <<err, pending>>
       ELSE LET environment == ActionEnvironmentInit(stored[1].action)
                r == EnvironmentExecute(environment, component, <<"interaction">>)
            IN  IF ~environment.ok
                THEN pc' = "error" /\ err' = environment.err /\ UNCHANGED pending
                ELSE IF r.err # ""
                THEN pc' = "error" /\ err' = r.err /\ UNCHANGED pending
                ELSE pc' = "running" /\ pending' = Pending("A", r.events) /\ UNCHANGED err
    /\ option' = 1
    /\ UNCHANGED <<doc, status, key, cur, roles, init_roles, guild_roles, role_groups,
                   responses, log, steps, arrival>>
    /\ UNCHANGED <<component, stored, selected, env_key, runs>>
    /\ UNCHANGED other

\* Components.on_dropdown up to its loop over the selected options: every
\* row is built into the dict.
OnDropdown ==
    /\ pc = "start"
    /\ component = "SelectMenu"
    /\ LET t == BuildRows(stored, Len(stored))
       IN  IF t.ok
           THEN pc' = "running" /\ env_key' = t.table /\ UNCHANGED err
           ELSE pc' = "error" /\ err' = t.err /\ UNCHANGED env_key
    /\ option' = 1
    /\ UNCHANGED <<doc, status, key, cur, roles, init_roles, guild_roles, role_groups,
                   responses, log, steps, arrival>>
    /\ UNCHANGED <<component, stored, selected, pending, runs>>
    /\ UNCHANGED other

\* The loop of on_dropdown: with the events of the previous option run, the
\* next selected option is looked up, and the handler returns after the last.
NextOption ==
    /\ pc = "running"
    /\ pending = <<>>
    /\ status \notin {"Ready", "Error"}
    /\ IF option > Len(selected)
       THEN pc' = "done" /\ UNCHANGED <<option, pending, err>>
       ELSE LET r == OptionStep(env_key, selected[option])
            IN  /\ option' = option + 1
                /\ pending' = Pending(selected[option], r.events)
                /\ IF r.kind = "raise"
                   THEN pc' = "error" /\ err' = r.err
                   ELSE pc' = pc /\ err' = err
    /\ UNCHANGED <<doc, status, key, cur, roles, init_roles, guild_roles, role_groups,
                   responses, log, steps, arrival>>
    /\ UNCHANGED <<component, stored, selected, env_key, runs>>
    /\ UNCHANGED other

\* event.execute(interaction, bot) for the next event of the environment:
\* the traversal of the event starts at its entrypoint.
StartEvent ==
    /\ pc = "running"
    /\ pending # <<>>
    /\ status \notin {"Ready", "Error"}
    /\ LET p == Head(pending)
       IN  /\ doc' = [entrypoint |-> p.event.data.entrypoint, actions |-> p.event.data.actions]
           /\ key' = p.event.key
           /\ cur' = p.event.entrypoint
           /\ runs' = Append(runs, [label |-> p.label, index |-> p.event.index,
                                    id |-> p.event.id, from |-> Len(log),
                                    prev |-> status, data |-> p.event.data])
    /\ status' = "Ready"
    /\ steps' = 0
    /\ arrival' = "none"
    /\ pending' = Tail(pending)
    /\ UNCHANGED <<roles, init_roles, guild_roles, role_groups, responses, log, err>>
    /\ UNCHANGED <<component, stored, selected, env_key, pc, option>>
    /\ UNCHANGED other

\* An exception that left a traversal leaves event.execute,
\* environment.execute and the handler: no further event runs.
Escape ==
    /\ pc = "running"
    /\ status = "Error"
    /\ pc' = "error"
    /\ pending' = <<>>
    /\ UNCHANGED traversal
    /\ UNCHANGED <<component, stored, selected, env_key, option, runs>>
    /\ UNCHANGED other

DispatchNext ==
    \/ OnButtonClick
    \/ OnDropdown
    \/ NextOption
    \/ StartEvent
    \/ Execute
    \/ Escape

DispatchSpec == InitDispatch /\ [][DispatchNext]_vars

\* ------------------------------------------- two interactions at once
\* The documents two interactions are run against: a chain, a cycle, and a
\* predicate whose branches change the role it tests.
ConcurrentDocs ==
    {[entrypoint |-> "a",
      actions |-> <<ActionDict("a", "ADD_ROLE",
                               Data({"role_id"}, 42, None, None, <<>>, FALSE), "b"),
                    ActionDict("b", "REMOVE_ROLE_GROUP",
                               Data({"group_name"}, 0, None, None, <<>>, FALSE), "c"),
                    ActionDict("c", "ACK", NoData, None)>>],
     [entrypoint |-> "a",
      actions |-> <<ActionDict("a", "ADD_ROLE",
                               Data({"role_id"}, 7, None, None, <<>>, FALSE), "b"),
                    ActionDict("b", "REMOVE_ROLE_GROUP",
                               Data({"group_name"}, 0, None, None, <<>>, FALSE), "a")>>],
     [entrypoint |-> "p",
      actions |-> <<ActionDict("p", "PREDICATE",
                               Data({"conditions"}, 0, "r", "g",
                                    <<<<Condition("USER_HAS_ROLE", 7)>>>>, FALSE), None),
                    ActionDict("r", "REMOVE_ROLE_GROUP",
                               Data({"group_name"}, 0, None, None, <<>>, FALSE), None),
                    ActionDict("g", "ADD_ROLE",
                               Data({"role_id"}, 7, None, None, <<>>, FALSE), "k"),
                    ActionDict("k", "ACK", NoData, None)>>]}

\* Two interactions arrive for the same stored document, the second from
\* the same member as the first or from another one.
InitConcurrent ==
    /\ doc \in ConcurrentDocs
    /\ \E held \in {{}, {7, 42}} : roles = RoleStore(held)
    /\ role_groups = RoleGroupTable(<<7, 9>>)
    /\ guild_roles = {7, 9, 42}
    /\ status = "Stored"
    /\ key = <<>>
    /\ cur = None
    /\ init_roles = roles
    /\ responses = <<>>
    /\ log = <<>>
    /\ steps = 0
    /\ err = ""
    /\ arrival = "none"
    /\ NoHandler
    /\ \E u \in Users : other = [NoOther EXCEPT !.user = u, !.status = "Stored"]

\* EventFor with the node table of another interaction reused when there
\* is one.
EventForCached(data, table) ==
    IF table # <<>>
    THEN [ok |-> TRUE, err |-> "", key |-> table, entrypoint |-> data.entrypoint]
    ELSE ActionEventInit(data)

\* The event a handler executes for its interaction: built from the stored
\* document by the handler itself, whatever tables other interactions hold.
EventFor(data, table) == ActionEventInit(data)

\* The second interaction builds its event.
LoadOther ==
    /\ other.status = "Stored"
    /\ LET t == EventFor(doc, key)
       IN  other' = IF t.ok
                    THEN [other EXCEPT !.key = t.key, !.cur = t.entrypoint,
                                       !.status = "Ready"]
                    ELSE [other EXCEPT !.status = "BuildError", !.err = t.err]
    /\ UNCHANGED traversal
    /\ UNCHANGED handler

\* One invocation of _recursively_execute_actions of the second interaction.
ExecuteOther ==
    /\ other.status = "Ready"
    /\ \E fault \in Faults(other.key, other.cur) :
          LET ctx == [roles |-> roles[other.user], guild_roles |-> guild_roles,
                      role_groups |-> role_groups, responses |-> other.responses,
                      fault |-> fault]
              r == Invoke(other.key, other.cur, ctx)
              o == r.o
          IN  /\ roles' = [roles EXCEPT ![other.user] = o.roles]
              /\ other' =
                   [other EXCEPT
                      !.key = Pop(other.key, other.cur),
                      !.responses = o.responses,
                      !.log = IF r.found
                              THEN Append(other.log,
                                          [id |-> other.cur, action |-> other.key[other.cur],
                                           before |-> roles[other.user], after |-> o.roles,
                                           fault |-> fault, sig |-> o.sig,
                                           evaluated |-> Evaluated(other.key[other.cur], ctx)])
                              ELSE other.log,
                      !.cur = IF o.sig.kind = "CallNext" THEN o.sig.next ELSE other.cur,
                      !.status = CASE o.sig.kind = "CallNext" -> "Ready"
                                   [] o.sig.kind = "Raise" -> "Error"
                                   [] OTHER -> "Terminated",
                      !.err = IF o.sig.kind = "Raise" THEN o.sig.err ELSE other.err]
    /\ UNCHANGED <<doc, status, key, cur, init_roles, guild_roles, role_groups,
                   responses, log, steps, err, arrival>>
    /\ UNCHANGED handler

ConcurrentNext == Load \/ Execute \/ LoadOther \/ ExecuteOther

ConcurrentSpec == InitConcurrent /\ [][ConcurrentNext]_vars

\* ----------------------------------------------------------- properties
\* The node table and node count of the loaded graph.
LoadedKey == BuildKey(doc.actions, Len(doc.actions)).key
NodeCount == Cardinality(DOMAIN LoadedKey)

\* The ids a node names as next, on_success or on_failure.
Successors(table, id) ==
    {table[id].next, table[id].on_success, table[id].on_failure} \cap DOMAIN table

RECURSIVE Reachable(_, _)
Reachable(table, from) ==
    LET more == from \cup UNION {Successors(table, n) : n \in from}
    IN  IF more = from THEN from ELSE Reachable(table, more)

\* The loaded graph has a cycle that the entrypoint reaches.
CycleReachable ==
    /\ status \in {"Ready", "Terminated", "Error"}
    /\ \E n \in Reachable(LoadedKey, {doc.entrypoint}) :
          n \in Reachable(LoadedKey, Successors(LoadedKey, n))

Ended == status \in {"Terminated", "Error"}

Acks == {i \in 1..Len(responses) : responses[i].kind = "ack"}

SideEffectFree ==
    /\ log = <<>>
    /\ steps = 0
    /\ roles = init_roles
    /\ responses = <<>>

\* What Action._get_next raises for a node with this next id.
Routing(next) == IF next = None THEN Exit ELSE CallNext(next)

\* The node executed after log entry i is the one its CallNext names, and
\* with no CallNext nothing is executed after it.
Followed(i) ==
    IF log[i].sig.kind = "CallNext"
    THEN /\ i < Len(log) => log[i + 1].id = log[i].sig.next
         /\ i = Len(log) => cur = log[i].sig.next
    ELSE i = Len(log) /\ status # "Ready"

\* C1: in one traversal no node is executed twice: an executed node is no
\* longer in the node table, and an arrival at an id that is not in the
\* table executes nothing and ends the traversal.
C1_AtMostOnce ==
    /\ \A i, j \in 1..Len(log) : log[i].id = log[j].id => i = j
    /\ \A i \in 1..Len(log) : log[i].id \notin DOMAIN key
    /\ arrival = "miss" => status = "Terminated" /\ Len(log) = steps - 1

\* A traversal of a two-node cycle came back to its first node and ended.
C1_Witness ==
    /\ status = "Terminated"
    /\ arrival = "miss"
    /\ Len(log) = 2
    /\ cur = log[1].id

\* C2 as stated: with a cycle reachable from the entrypoint the traversal
\* takes at most |nodes| transitions.
C2_Original == CycleReachable => steps <= NodeCount

\* C2 amended: with a cycle reachable from the entrypoint the traversal
\* takes at most |nodes| + 1 transitions: while it has not ended it has
\* taken at most |nodes| and can take another, and a traversal of
\* |nodes| + 1 transitions has ended in Terminated.
C2_Amended ==
    CycleReachable =>
        /\ steps <= NodeCount + 1
        /\ status = "Ready" => steps <= NodeCount /\ ENABLED Execute
        /\ steps = NodeCount + 1 => status = "Terminated"

\* A cycle through every node was traversed in |nodes| + 1 transitions.
C2_Witness ==
    /\ CycleReachable
    /\ NodeCount = MaxActions
    /\ steps = NodeCount + 1
    /\ status = "Terminated"

\* C3: a transition from Ready(id) with id absent from the node table goes
\* to Terminated, executes no node, changes no role, creates no response
\* and raises no error.
C3_Dangling ==
    [][(status = "Ready" /\ cur \notin DOMAIN key) =>
          /\ status' = "Terminated"
          /\ log' = log
          /\ roles' = roles
          /\ responses' = responses
          /\ err' = err]_vars

\* A traversal ended on a reference to an id that never was in the table.
C3_Witness ==
    /\ status = "Terminated"
    /\ arrival = "miss"
    /\ Len(log) >= 1
    /\ cur \notin DOMAIN LoadedKey
    /\ err = ""

\* The disjunction of one group and the conjunction of the groups, over
\* the role set the conditions were tested against.
GroupHolds(group, ctx) == \E i \in 1..Len(group) : ConditionCall(group[i], ctx)
AndOfOrs(conditions, ctx) == \A g \in 1..Len(conditions) : GroupHolds(conditions[g], ctx)

EntryCtx(i) == [roles |-> log[i].before, guild_roles |-> guild_roles,
                role_groups |-> role_groups, responses |-> <<>>, fault |-> FALSE]

\* C4: a predicate with at least one group and no empty group continues at
\* on_success when the AND over its groups of the OR over each group's
\* conditions is true, and at on_failure when it is false.
C4_AndOfOrs ==
    \A i \in 1..Len(log) :
        LET a == log[i].action
        IN  (/\ a.command = "PREDICATE"
             /\ a.conditions # <<>>
             /\ \A g \in 1..Len(a.conditions) : a.conditions[g] # <<>>)
            => log[i].sig = IF AndOfOrs(a.conditions, EntryCtx(i))
                            THEN CallNext(a.on_success) ELSE CallNext(a.on_failure)

\* A predicate of 3 groups of 2 conditions failed on its last group only.
C4_Witness ==
    /\ Len(log) = 2
    /\ Len(log[1].action.conditions) = 3
    /\ \A g \in 1..3 : Len(log[1].action.conditions[g]) = 2
    /\ \A g \in 1..2 : GroupHolds(log[1].action.conditions[g], EntryCtx(1))
    /\ ~GroupHolds(log[1].action.conditions[3], EntryCtx(1))
    /\ log[2].id = "f"

\* C5: a predicate whose conditions list is empty or whose first group is
\* empty passes, whatever the other groups hold: it continues at its
\* on_success branch.
C5_VacuousPass ==
    \A i \in 1..Len(log) :
        LET a == log[i].action
        IN  (a.command = "PREDICATE" /\ (a.conditions = <<>> \/ a.conditions[1] = <<>>))
            => /\ log[i].sig = Routing(a.on_success)
               /\ Followed(i)

\* An empty first group passed although a later group held no true
\* condition, and the on_success node was executed.
C5_Witness ==
    /\ Len(log) = 2
    /\ Len(log[1].action.conditions) = 2
    /\ log[1].action.conditions[1] = <<>>
    /\ log[1].action.conditions[2] # <<>>
    /\ ~GroupHolds(log[1].action.conditions[2], EntryCtx(1))
    /\ log[2].id = "s"

ActionIds == {doc.actions[i].id : i \in 1..Len(doc.actions)}

\* C6: a document whose entrypoint is the id of none of its actions fails
\* to load: no node executes, no role changes and no response is created.
C6_EntrypointAbsent ==
    (doc.entrypoint \notin ActionIds /\ status # "Stored")
    => status = "BuildError" /\ SideEffectFree

\* Loading well-formed actions failed on the absent entrypoint.
C6_Witness ==
    /\ status = "BuildError"
    /\ err = "KeyError"
    /\ doc.entrypoint \notin ActionIds
    /\ BuildKey(doc.actions, Len(doc.actions)).ok

DeclaresNext(d) == d.command \in {"ACK", "PREDICATE"} /\ d.next # None

\* C7: a document with an Ack or a Predicate that declares next fails to
\* load, and none of its nodes is executed.
C7_NextRejected ==
    ((\E i \in 1..Len(doc.actions) : DeclaresNext(doc.actions[i])) /\ status # "Stored")
    => status = "BuildError" /\ SideEffectFree

\* A graph with a valid entrypoint node was rejected for an Ack with next.
C7_Witness ==
    /\ status = "BuildError"
    /\ err = "ValueError"
    /\ Len(doc.actions) = 2
    /\ doc.entrypoint = doc.actions[1].id
    /\ doc.actions[1].command = "ADD_ROLE"
    /\ doc.actions[2].command = "ACK"
    /\ doc.actions[2].next # None

\* C8: an executed Ack is the last node of its traversal, and when its
\* create_response call completes the interaction has exactly one
\* acknowledgment response and the traversal is Terminated.
C8_AckTerminates ==
    \A i \in 1..Len(log) :
        log[i].action.command = "ACK"
        => /\ i = Len(log)
           /\ status # "Ready"
           /\ ~log[i].fault => /\ status = "Terminated"
                               /\ Cardinality(Acks) = 1
                               /\ responses[Len(responses)].kind = "ack"

\* An Ack reached from another node responded and ended the traversal.
C8_Witness ==
    /\ Len(log) = 2
    /\ log[2].action.command = "ACK"
    /\ ~log[2].fault
    /\ status = "Terminated"
    /\ Cardinality(Acks) = 1

\* C9: AddRole for a role the author holds, with the platform call
\* completing, raises nothing, leaves the role set as it was and routes as
\* the same node does for a role the author lacks: to next, or Exit.
C9_AddRoleHeld ==
    \A i \in 1..Len(log) :
        LET a == log[i].action
        IN  (a.command = "ADD_ROLE" /\ a.role_id \in log[i].before /\ ~log[i].fault)
            => /\ log[i].sig.kind # "Raise"
               /\ log[i].after = log[i].before
               /\ log[i].sig = Routing(a.next)
               /\ log[i].sig = AddRoleCall(a, [EntryCtx(i) EXCEPT
                                                  !.roles = log[i].before \ {a.role_id}]).sig
               /\ Followed(i)

\* A held role was granted again and the next node was executed.
C9_Witness ==
    /\ Len(log) = 2
    /\ log[1].action.command = "ADD_ROLE"
    /\ log[1].action.role_id \in log[1].before
    /\ ~log[1].fault
    /\ log[2].id = log[1].action.next

\* C10: RemoveRoleGroup with a group name that has no rows changes no role
\* and routes to next (Exit only when next is unset).
C10_GroupMiss ==
    \A i \in 1..Len(log) :
        LET a == log[i].action
        IN  (a.command = "REMOVE_ROLE_GROUP"
             /\ QueryRoleGroup(role_groups, a.group_name) = <<>>)
            => /\ log[i].after = log[i].before
               /\ log[i].sig = Routing(a.next)
               /\ Followed(i)

\* A lookup miss was followed by the execution of the next node.
C10_Witness ==
    /\ Len(log) = 2
    /\ log[1].action.command = "REMOVE_ROLE_GROUP"
    /\ QueryRoleGroup(role_groups, log[1].action.group_name) = <<>>
    /\ log[1].before # {}
    /\ log[2].id = log[1].action.next

Ephemerals == {i \in 1..Len(responses) : responses[i].kind = "ephemeral"}

\* The ids of the executed nodes, in the order of their execution.
Executed == [i \in 1..Len(log) |-> log[i].id]

\* C11: in the graph p1 -> a1 / a2 run for a user holding role 42, a2 is
\* never executed and nothing ephemeral is sent; the finished traversal
\* executed p1 and then a1, and when a1's create_response call completes it
\* is Terminated with exactly one acknowledgment response.
C11_HolderAcknowledged ==
    (doc \in EndToEndDocs /\ 42 \in init_roles[Author])
    => /\ \A i \in 1..Len(log) : log[i].id # "a2"
       /\ Ephemerals = {}
       /\ Cardinality(Acks) <= 1
       /\ Ended => /\ Executed = <<"p1", "a1">>
                   /\ ~log[2].fault => /\ status = "Terminated"
                                       /\ Cardinality(Acks) = 1
                                       /\ Len(responses) = 1

\* The holder's traversal ended at a1 with its one acknowledgment.
C11_Witness ==
    /\ doc \in EndToEndDocs
    /\ 42 \in init_roles[Author]
    /\ status = "Terminated"
    /\ Executed = <<"p1", "a1">>
    /\ responses = <<[kind |-> "ack", content |-> ""]>>

\* a2 of the document carries content and no embed.
ContentOnly ==
    \E i \in 1..Len(doc.actions) :
        doc.actions[i].id = "a2" /\ doc.actions[i].data.keys = {"content"}

\* C12: in the same graph with a2 carrying only content, run for a user
\* lacking role 42, the finished traversal whose platform call did not fail
\* executed p1 and then a2, is Terminated, and produced exactly one
\* ephemeral response with content "nope" and no acknowledgment.
C12_NonHolderTold ==
    (/\ doc \in EndToEndDocs
     /\ ContentOnly
     /\ 42 \notin init_roles[Author]
     /\ Ended
     /\ ~log[Len(log)].fault)
    => /\ Executed = <<"p1", "a2">>
       /\ status = "Terminated"
       /\ responses = <<[kind |-> "ephemeral", content |-> "nope"]>>

\* The on_http_error fallback id the stored action configures, or None.
Fallback(action) ==
    IF "on_http_error" \in action.message_data.keys
    THEN action.message_data.on_http_error ELSE None

\* C13: an AddRole node whose role mutation fails with an HTTP error
\* continues at its configured on_http_error id when it has one, and
\* otherwise at next (Exit when next is unset).
C13_FallbackRouting ==
    \A i \in 1..Len(log) :
        LET a == log[i].action
        IN  (a.command = "ADD_ROLE" /\ log[i].fault)
            => /\ log[i].sig = IF Fallback(a) # None THEN CallNext(Fallback(a))
                               ELSE Routing(a.next)
               /\ Followed(i)

\* C14: an executed RemoveRole node with a configured role raises no error,
\* leaves the author without that role and routes to next (Exit when next
\* is unset).
C14_RemoveRole ==
    \A i \in 1..Len(log) :
        LET a == log[i].action
        IN  (a.command = "REMOVE_ROLE" /\ "role_id" \in a.message_data.keys)
            => /\ log[i].sig.kind # "Raise"
               /\ status # "Error"
               /\ log[i].after = log[i].before \ {a.message_data.role_id}
               /\ ~log[i].fault => log[i].sig = Routing(a.next)
               /\ Followed(i)

C16_MessageThenNext ==
    \A i \in 1..Len(log) :
        LET a == log[i].action
        IN  (a.command = "SEND_EPHEMERAL_MESSAGE" /\ log[i].sig.kind # "Raise")
            => IF a.next # None
               THEN IF i < Len(log) THEN log[i + 1].id = a.next ELSE cur = a.next
               ELSE i = Len(log) /\ status = "Terminated"

\* The action has an unknown command tag or lacks a field of its kind.
Malformed(d) ==
    \/ d.command \notin KnownCommands
    \/ d.command \in {"ADD_ROLE", "REMOVE_ROLE"} /\ "role_id" \notin d.data.keys
    \/ d.command = "REMOVE_ROLE_GROUP" /\ "group_name" \notin d.data.keys
    \/ d.command = "PREDICATE" /\ "conditions" \notin d.data.keys
    \/ d.command = "SEND_EPHEMERAL_MESSAGE" /\ "content" \notin d.data.keys

\* C17: a document with a malformed action fails to load: no node executes,
\* no role changes and no response is created.
C17_MalformedRejected ==
    ((\E i \in 1..Len(doc.actions) : Malformed(doc.actions[i])) /\ status # "Stored")
    => status = "BuildError" /\ SideEffectFree

HasRow(label) == \E i \in 1..Len(stored) : stored[i].option_label = label

\* The stored environment document of an option: its last row.
StoredDocument(label) ==
    LET i == CHOOSE i \in 1..Len(stored) :
                 /\ stored[i].option_label = label
                 /\ \A j \in (i + 1)..Len(stored) : stored[j].option_label # label
    IN  stored[i].action

\* The positions of the menu events among events[1..n], ascending.
RECURSIVE Declared(_, _)
Declared(events, n) ==
    IF n = 0 THEN <<>>
    ELSE IF events[n].id \in {"on_menu_select", "on_menu_unselect"}
         THEN Append(Declared(events, n - 1), n)
         ELSE Declared(events, n - 1)

\* The event runs a menu interaction owes for selected[1..n]: option by
\* option, the menu events of the option's document in declaration order.
RECURSIVE Schedule(_)
Schedule(n) ==
    IF n = 0 THEN <<>>
    ELSE LET l == selected[n]
             d == IF HasRow(l)
                  THEN Declared(StoredDocument(l).events, Len(StoredDocument(l).events))
                  ELSE <<>>
         IN  Schedule(n - 1) \o [i \in 1..Len(d) |-> [label |-> l, index |-> d[i]]]

RunOrder == [i \in 1..Len(runs) |-> [label |-> runs[i].label, index |-> runs[i].index]]

IsPrefix(s, t) == Len(s) <= Len(t) /\ \A i \in 1..Len(s) : s[i] = t[i]

\* The clicked button has a stored document that builds and holds an
\* on_button_click event.
ButtonStored ==
    /\ component = "Button"
    /\ stored # <<>>
    /\ ActionEnvironmentInit(stored[1].action).ok
    /\ \E i \in 1..Len(stored[1].action.events) :
          stored[1].action.events[i].id = "on_button_click"

\* C18: the handler of a click on a button with a stored document, once it
\* has returned, has run the on_button_click event exactly once, and the
\* entrypoint node of the event was executed.
C18_ButtonRuns ==
    (ButtonStored /\ pc \in {"done", "error"})
    => /\ Len(runs) = 1
       /\ runs[1].id = "on_button_click"
       /\ Len(log) >= 1
       /\ log[1].id = doc.entrypoint

\* C19: on a menu selection the started event traversals follow, option by
\* option, the declaration order of the menu events of each selected
\* option's document; a traversal starts only when the one before it is
\* Terminated, so at most one is in progress; and a handler that returned
\* normally has run every menu event of every selected option.
C19_DeclarationOrder ==
    component = "SelectMenu"
    => /\ IsPrefix(RunOrder, Schedule(Len(selected)))
       /\ \A k \in 1..Len(runs) :
             /\ runs[k].prev = IF k = 1 THEN "Stored" ELSE "Terminated"
             /\ runs[k].from <= Len(log)
             /\ k < Len(runs) => runs[k].from <= runs[k + 1].from
       /\ status = "Ready" => runs # <<>>
       /\ pc = "done" => RunOrder = Schedule(Len(selected))

\* Two selected options ran three events or more, option C its unselect
\* event before its select event as declared, each over several nodes.
C19_Witness ==
    /\ component = "SelectMenu"
    /\ pc = "done"
    /\ Len(selected) = 2
    /\ Len(runs) >= 3
    /\ \E k \in 1..(Len(runs) - 1) :
          /\ runs[k].label = "C" /\ runs[k].id = "on_menu_unselect"
          /\ runs[k + 1].label = "C" /\ runs[k + 1].id = "on_menu_select"
          /\ runs[k + 1].from >= runs[k].from + 2

\* The handler is about to look up a selected option that has no row.
AtMissingOption ==
    /\ pc = "running"
    /\ pending = <<>>
    /\ status \notin {"Ready", "Error"}
    /\ option <= Len(selected)
    /\ ~HasRow(selected[option])

\* C20: on a menu selection no event is run for a selected option without
\* a stored row; the step that handles such an option raises nothing,
\* executes nothing and goes on to the next option; and a handler that
\* returned normally has run the events of all the other selected options.
C20_MissingSkipped ==
    /\ [](\A k \in 1..Len(runs) : HasRow(runs[k].label))
    /\ []((component = "SelectMenu" /\ pc = "done") =>
             \A n \in 1..Len(selected) :
                 HasRow(selected[n]) =>
                     \A i \in 1..Len(StoredDocument(selected[n]).events) :
                         IsMenuEvent(StoredDocument(selected[n]).events[i]) =>
                             \E k \in 1..Len(runs) :
                                 runs[k].label = selected[n] /\ runs[k].index = i)
    /\ [][AtMissingOption =>
             /\ pc' = "running"
             /\ option' = option + 1
             /\ UNCHANGED <<pending, runs, traversal>>]_vars

\* An option without a row was selected between two options with rows, and
\* the events of both were run.
C20_Witness ==
    /\ pc = "done"
    /\ Len(selected) = 3
    /\ ~HasRow(selected[2])
    /\ \E j, k \in 1..Len(runs) :
          j < k /\ runs[j].label = selected[1] /\ runs[k].label = selected[3]
    /\ err = ""

\* A predicate of the document holds a condition of a permission kind.
HasPermissionCondition ==
    \E i \in 1..Len(doc.actions) :
        /\ doc.actions[i].command = "PREDICATE"
        /\ "conditions" \in doc.actions[i].data.keys
        /\ \E g \in 1..Len(doc.actions[i].data.conditions) :
              \E c \in 1..Len(doc.actions[i].data.conditions[g]) :
                  doc.actions[i].data.conditions[g][c].condition \in PermissionKinds

\* C21: a document whose predicate holds a condition of one of the four
\* permission kinds loads: after loading, the traversal is ready or has
\* run, and loading raised no error.
C21_PermissionLoads ==
    (HasPermissionCondition /\ status # "Stored")
    => status # "BuildError" /\ err # "ValueError"

\* The node of log entry i made its platform call: the response send of an
\* Ack, the send of a SendEphemeralMessage with content and embed, or the
\* remove_roles of a RemoveRoleGroup whose group holds a role of the user.
PlatformCallMade(i) ==
    LET a == log[i].action
        rows == QueryRoleGroup(role_groups, a.group_name)
    IN  \/ a.command = "ACK"
        \/ /\ a.command = "SEND_EPHEMERAL_MESSAGE"
           /\ {"content", "embed"} \subseteq a.message_data.keys
        \/ /\ a.command = "REMOVE_ROLE_GROUP"
           /\ {rows[j] : j \in 1..Len(rows)} \cap log[i].before # {}

\* C22: when the response send of an Ack or a SendEphemeralMessage, or the
\* role removal of a RemoveRoleGroup, fails with an external-call error, the
\* node is the last of its traversal, the traversal is Terminated and no
\* error has left it.
C22_SilentTermination ==
    \A i \in 1..Len(log) :
        (/\ log[i].action.command \in {"ACK", "SEND_EPHEMERAL_MESSAGE", "REMOVE_ROLE_GROUP"}
         /\ log[i].fault
         /\ PlatformCallMade(i))
        => /\ i = Len(log)
           /\ status = "Terminated"
           /\ err = ""

\* The executed nodes of the traversal that create a response.
ResponseNodes ==
    {i \in 1..Len(log) : log[i].action.command \in {"ACK", "SEND_EPHEMERAL_MESSAGE"}}

\* C23: a traversal of one event creates at most one response, and none
\* when it executed neither an Ack nor a SendEphemeralMessage node; a
\* response is created by a response node whose send completes.
C23_AtMostOneResponse ==
    /\ Len(responses) <= 1
    /\ ResponseNodes = {} => responses = <<>>
    /\ Len(responses) = Cardinality({i \in ResponseNodes : log[i].sig.kind # "Raise"})

\* A traversal sent an ephemeral message from a node whose next names an
\* Ack of the graph, and ended with that one response.
C23_Witness ==
    /\ status = "Terminated"
    /\ Len(log) = 1
    /\ log[1].action.command = "SEND_EPHEMERAL_MESSAGE"
    /\ log[1].action.next \in DOMAIN key
    /\ key[log[1].action.next].command = "ACK"
    /\ Len(responses) = 1
    /\ responses[1].kind = "ephemeral"

\* C25: a traversal changes the roles of the author only: every other
\* member holds the roles held when the interaction arrived.
C25_AuthorOnly ==
    \A u \in Users \ {Author} : roles[u] = init_roles[u]

\* A finished traversal of two nodes changed the roles of the author and
\* left the bystander's.
C25_Witness ==
    /\ Ended
    /\ Len(log) = 2
    /\ roles[Author] # init_roles[Author]
    /\ init_roles[Bystander] # {}
    /\ roles[Bystander] = init_roles[Bystander]

\* The role ids of the rows of a group.
GroupRoles(name) ==
    {QueryRoleGroup(role_groups, name)[j] : j \in 1..Len(QueryRoleGroup(role_groups, name))}

\* C26: a RemoveRoleGroup node executed for a group with rows, its removal
\* completing, leaves the author with the roles held before minus the roles
\* of the group.
C26_GroupRemoved ==
    \A i \in 1..Len(log) :
        LET a == log[i].action
        IN  (/\ a.command = "REMOVE_ROLE_GROUP"
             /\ QueryRoleGroup(role_groups, a.group_name) # <<>>
             /\ log[i].sig.kind # "Raise")
            => /\ log[i].after = log[i].before \ GroupRoles(a.group_name)
               /\ log[i].before \ log[i].after = log[i].before \cap GroupRoles(a.group_name)
               /\ log[i].after \subseteq log[i].before

\* A user holding a role of the group and a role outside it lost the one
\* and kept the other.
C26_Witness ==
    /\ Len(log) >= 1
    /\ log[1].action.command = "REMOVE_ROLE_GROUP"
    /\ log[1].before \cap GroupRoles(log[1].action.group_name) # {}
    /\ log[1].before \ GroupRoles(log[1].action.group_name) # {}
    /\ log[1].after = log[1].before \ GroupRoles(log[1].action.group_name)
    /\ log[1].sig.kind # "Raise"

\* Pair p comes before pair q in list order.
Before(p, q) == p[1] < q[1] \/ (p[1] = q[1] /\ p[2] < q[2])

\* C27: the condition calls of an executed Predicate are made in list
\* order; every condition of a group that is evaluated is called, also
\* after one of them returned true; no condition of a group that comes
\* after a false group is called; and the result of a group is true once
\* any of its conditions is true.
C27_EvaluationOrder ==
    \A i \in 1..Len(log) :
        LET a == log[i].action
            c == a.conditions
            calls == log[i].evaluated
            called == {calls[j] : j \in 1..Len(calls)}
        IN  a.command = "PREDICATE"
            => /\ \A j, k \in 1..Len(calls) : j < k => Before(calls[j], calls[k])
               /\ \A g \in 1..Len(c) :
                     /\ (\E m \in 1..Len(c[g]) : <<g, m>> \in called)
                        => \A m \in 1..Len(c[g]) : <<g, m>> \in called
                     /\ (\E f \in 1..(g - 1) : c[f] # <<>> /\ ~GroupHolds(c[f], EntryCtx(i)))
                        => \A m \in 1..Len(c[g]) : <<g, m>> \notin called
                     /\ c[g] # <<>> =>
                           CheckOrGroup(c[g], EntryCtx(i)) = GroupHolds(c[g], EntryCtx(i))
               /\ (c # <<>> /\ c[1] # <<>>) => <<1, 1>> \in called

\* The first condition of a first group of two was true and the second was
\* still called; the second group was false and no condition of the third
\* group was called.
C27_Witness ==
    /\ Len(log) >= 1
    /\ log[1].action.command = "PREDICATE"
    /\ Len(log[1].action.conditions) = 3
    /\ Len(log[1].action.conditions[1]) = 2
    /\ ConditionCall(log[1].action.conditions[1][1], EntryCtx(1))
    /\ log[1].action.conditions[2] # <<>>
    /\ ~GroupHolds(log[1].action.conditions[2], EntryCtx(1))
    /\ log[1].action.conditions[3] # <<>>
    /\ Len(log[1].evaluated) = 2 + Len(log[1].action.conditions[2])
    /\ log[1].evaluated[2] = <<1, 2>>

Unaffected ==
    /\ runs = <<>>
    /\ log = <<>>
    /\ roles = init_roles
    /\ responses = <<>>

\* A stored row of the menu holds a document that does not build.
BadRow == \E i \in 1..Len(stored) : ~ActionEnvironmentInit(stored[i].action).ok

\* C28: on a menu selection no event starts before every stored row of the
\* menu is built into the dict; and when a row, selected or not, fails to
\* build, the handler ends with the error and no event ran, no node
\* executed, no role changed and no response was created.
C28_BuiltFirst ==
    component = "SelectMenu"
    => /\ runs # <<>> =>
             \A i \in 1..Len(stored) : stored[i].option_label \in DOMAIN env_key
       /\ (BadRow /\ pc # "start") => pc = "error" /\ Unaffected

\* The row of option A did not build; only B was selected, B has a row that
\* builds, and nothing ran.
C28_Witness ==
    /\ component = "SelectMenu"
    /\ pc = "error"
    /\ ~ActionEnvironmentInit(stored[1].action).ok
    /\ selected = <<"B">>
    /\ HasRow("B")
    /\ Unaffected

\* C29: every event run on a menu selection is an event of the stored
\* document of a selected option, so no node of the graphs of an option
\* that is not selected is executed.
C29_SelectedOnly ==
    component = "SelectMenu"
    => \A k \in 1..Len(runs) :
          /\ \E n \in 1..Len(selected) : selected[n] = runs[k].label
          /\ HasRow(runs[k].label)
          /\ runs[k].index \in 1..Len(StoredDocument(runs[k].label).events)
          /\ StoredDocument(runs[k].label).events[runs[k].index] = runs[k].data
          /\ \A j \in (runs[k].from + 1)..Len(log) :
                k = Len(runs) => log[j].id \in {runs[k].data.actions[m].id :
                                                  m \in 1..Len(runs[k].data.actions)}

\* The handler returned after running the events of C alone, with rows
\* stored for A with two events, for B and for C.
C29_Witness ==
    /\ component = "SelectMenu"
    /\ pc = "done"
    /\ selected = <<"C">>
    /\ Len(stored) = 3
    /\ Len(stored[1].action.events) = 2
    /\ Len(runs) = 2
    /\ \A k \in 1..Len(runs) : runs[k].label = "C"
    /\ Len(log) >= 3

\* The positions of the actions list that declare the id.
Declarations(id) == {i \in 1..Len(doc.actions) : doc.actions[i].id = id}

\* The action declared last for the id.
LastDeclared(id) ==
    doc.actions[CHOOSE i \in Declarations(id) : \A j \in Declarations(id) : j <= i]

\* C30: a document of well-formed actions two of which share an id loads;
\* the node table holds one node per declared id, built from the action
\* declared last for it; and a traversal executes, for such an id, that
\* node only and at most once.
C30_LastDeclaredWins ==
    (doc \in DuplicateDocs /\ status # "Stored")
    => /\ status # "BuildError"
       /\ DOMAIN LoadedKey = ActionIds
       /\ \A id \in DOMAIN key : key[id] = Build(LastDeclared(id)).action
       /\ \A i \in 1..Len(log) :
             /\ log[i].action = Build(LastDeclared(log[i].id)).action
             /\ \A j \in 1..Len(log) : log[j].id = log[i].id => i = j

\* A traversal from a reached the id declared twice and executed the node
\* declared last, which differs from the one declared first.
C30_Witness ==
    /\ doc \in DuplicateDocs
    /\ Len(log) = 2
    /\ log[1].id = "a"
    /\ log[2].id = "b"
    /\ Cardinality(Declarations("b")) = 2
    /\ \E i \in Declarations("b") : doc.actions[i].command # log[2].action.command
    /\ log[2].action.command = LastDeclared("b").command
    /\ Ended

\* The node table built from the stored document alone.
OwnTable == LoadedKey

\* lg is the log, and table the node table, of a traversal of the stored
\* document run on a table of its own: the first node is the entrypoint,
\* every node is the node the document declares, its outcome is what the
\* call yields for the role-store answer and the platform answer it got,
\* each node is the one the outcome before it names, and the table lacks
\* the executed nodes only.
RunsAlone(lg, table) ==
    /\ \A i \in 1..Len(lg) :
          /\ lg[i].id = IF i = 1 THEN doc.entrypoint ELSE lg[i - 1].sig.next
          /\ i > 1 => lg[i - 1].sig.kind = "CallNext"
          /\ lg[i].id \in DOMAIN OwnTable
          /\ lg[i].action = OwnTable[lg[i].id]
          /\ LET o == Call(lg[i].action,
                           [roles |-> lg[i].before, guild_roles |-> guild_roles,
                            role_groups |-> role_groups, responses |-> <<>>,
                            fault |-> lg[i].fault])
             IN  lg[i].sig = o.sig /\ lg[i].after = o.roles
          /\ \A j \in 1..Len(lg) : lg[j].id = lg[i].id => i = j
    /\ DOMAIN table = DOMAIN OwnTable \ {lg[i].id : i \in 1..Len(lg)}
    /\ \A id \in DOMAIN table : table[id] = OwnTable[id]

\* C24: of two interactions handled at once for the same stored document,
\* each has a node table of its own: a node popped by one is still in the
\* table of the other, and under every interleaving each traversal executes
\* the nodes it would execute alone for the role-store answers it got.
C24_NoSharedState ==
    /\ status \in {"Ready", "Terminated", "Error"} => RunsAlone(log, key)
    /\ other.status \in {"Ready", "Terminated", "Error"} => RunsAlone(other.log, other.key)
    /\ status = "Ready" => (cur \in DOMAIN key <=> cur \in DOMAIN OwnTable /\
                               \A i \in 1..Len(log) : log[i].id # cur)
    /\ other.status = "Ready" =>
          (other.cur \in DOMAIN other.key <=> other.cur \in DOMAIN OwnTable /\
              \A i \in 1..Len(other.log) : other.log[i].id # other.cur)

\* The same member triggered both interactions; the first traversal has
\* popped two nodes and is still running, and the second has executed the
\* entrypoint node the first had popped, on other role-store answers.
C24_Witness ==
    /\ other.user = Author
    /\ status = "Ready"
    /\ Len(log) = 2
    /\ other.status = "Ready"
    /\ Len(other.log) = 1
    /\ other.log[1].id = log[1].id
    /\ other.log[1].id \notin DOMAIN key
    /\ other.log[1].before # log[1].before
    /\ log[2].id \in DOMAIN other.key

====
